---- MODULE Spec2Model ----
(***************************************************************************)
(* Model of LibraryService (src/index.tsx): the localStorage-backed store  *)
(* of books, students and transactions, and the catalog and circulation    *)
(* operations that act on it.                                              *)
(***************************************************************************)
EXTENDS Integers, Sequences, FiniteSets, TLC

\* ------------------------------------------------------------------ bounds
MaxUUID == 2           \* how many records (books, students, transactions) are created
MaxCrashes == 2        \* how many calls are interrupted between their two saves

\* --------------------------------------------------------------- constants
MS_PER_DAY == 86400000          \* 1000 * 60 * 60 * 24
LOAN_PERIOD_MS == 604800000     \* 7 * 24 * 60 * 60 * 1000
FINE_PER_DAY == 1

\* How late the returns of the fine examples are.
OneSecond == 1 * 1000
Hours25 == 25 * 3600000
Days2Hours3 == 51 * 3600000

\* Amounts by which the wall clock is advanced between two calls: up to the
\* due date of a loan issued just before, and past it by 1 s, 25 h and 2 d 3 h.
Delays == {LOAN_PERIOD_MS, LOAN_PERIOD_MS + OneSecond,
           LOAN_PERIOD_MS + Hours25, LOAN_PERIOD_MS + Days2Hours3}

\* The clock may move by one millisecond between two reads inside a handler.
Skews == {0, 1}

\* The clock is followed up to the latest of these returns of a loan issued at
\* the start, whatever the skews of the issues before it.
MaxClock == LOAN_PERIOD_MS + Days2Hours3 + MaxUUID

\* ------------------------------------------------------ JavaScript numbers
\* A JS number is an integer or NaN; JSON has no NaN and stores null instead.
Num(n) == [t |-> "number", n |-> n]
NaN == [t |-> "NaN", n |-> 0]
Null == [t |-> "null", n |-> 0]

IsNum(v) == v.t = "number"

\* JSON.parse(JSON.stringify(v)) for a numeric field.
JSONNumber(v) == IF v.t = "NaN" THEN Null ELSE v

\* ToNumber coercion used by <=, ++ and --.
ToNumber(v) == IF v.t = "null" THEN Num(0) ELSE v

\* v <= 0
LeqZero_Strict(v) == LET x == ToNumber(v) IN IsNum(x) /\ x.n < 0
LeqZero(v) == LET x == ToNumber(v) IN IsNum(x) /\ x.n <= 0

\* v-- and v++ (the value stored back)
Decrement(v) == LET x == ToNumber(v) IN IF IsNum(x) THEN Num(x.n - 1) ELSE NaN
Increment_ByTwo(v) == LET x == ToNumber(v) IN IF IsNum(x) THEN Num(x.n + 2) ELSE NaN
Increment(v) == LET x == ToNumber(v) IN IF IsNum(x) THEN Num(x.n + 1) ELSE NaN

\* ------------------------------------------------------------- timestamps
\* Date.prototype.toISOString and new Date(isoString): the string carries the
\* calendar day and the time of day separately, at millisecond precision.
ToISOString(ms) == [date |-> ms \div MS_PER_DAY, time |-> ms % MS_PER_DAY]
ParseISO(s) == s.date * MS_PER_DAY + s.time

\* ---------------------------------------------------------------- identifiers
\* crypto.randomUUID(): a value never returned before.
UUIDs == <<"u1", "u2", "u3", "u4", "u5", "u6", "u7", "u8", "u9", "u10", "u11", "u12">>
randomUUID(n) == UUIDs[n + 1]

\* An id that was never handed out.
UnknownId == "zz"

\* totalCopies arguments passed to addBook.
CopiesInputs == {NaN, Num(-1), Num(1)}

VARIABLES
    books,          \* localStorage['lib_books']
    students,       \* localStorage['lib_students']
    transactions,   \* localStorage['lib_transactions']
    clock,          \* Date.now(), ms since the store was initialised
    uuidCount,      \* number of UUIDs handed out so far
    lastCall,       \* the most recent call and the value it returned
    pending,        \* the localStorage.setItem a running call has still to make
    crashes,        \* number of calls interrupted so far
    sessions,       \* per browser tab: the call it is running and what it has loaded
    app             \* the App component: its copies of the collections and its stats

vars == <<books, students, transactions, clock, uuidCount, lastCall, pending,
          crashes, sessions, app>>

\* The three collections as one value.
DB == [books |-> books, students |-> students, transactions |-> transactions]

\* ------------------------------------------------------------ array helpers
\* Array.prototype.findIndex on an id; 0 stands for -1 (arrays are 1-based here).
FindIndex_LastWhenAbsent(arr, id) ==
    IF \E i \in 1..Len(arr) : arr[i].id = id
    THEN CHOOSE i \in 1..Len(arr) : arr[i].id = id /\ \A j \in 1..(i - 1) : arr[j].id # id
    ELSE Len(arr)
FindIndex(arr, id) ==
    IF \E i \in 1..Len(arr) : arr[i].id = id
    THEN CHOOSE i \in 1..Len(arr) : arr[i].id = id /\ \A j \in 1..(i - 1) : arr[j].id # id
    ELSE 0

\* Array.prototype.filter(x => x.id !== id)
FilterOutId(arr, id) == SelectSeq(arr, LAMBDA x : x.id # id)

Ids(arr) == {arr[i].id : i \in 1..Len(arr)}

\* JSON.parse(JSON.stringify(books)): what a later getBooks() reads back.
JSONBooks(arr) ==
    [i \in 1..Len(arr) |->
        [arr[i] EXCEPT !.totalCopies = JSONNumber(@), !.availableCopies = JSONNumber(@)]]

\* -------------------------------------------------------------------- init
dummyBooks ==
    << [id |-> "b1", totalCopies |-> Num(5), availableCopies |-> Num(5)],
       [id |-> "b2", totalCopies |-> Num(3), availableCopies |-> Num(3)],
       [id |-> "b3", totalCopies |-> Num(2), availableCopies |-> Num(2)],
       [id |-> "b4", totalCopies |-> Num(8), availableCopies |-> Num(8)] >>

dummyStudents == << [id |-> "s1"], [id |-> "s2"] >>

NoCall == [op |-> "none"]
NoPending == [key |-> "none"]
Undefined == [undefined |-> TRUE]

\* Two browser tabs of the same origin share one localStorage.
Sessions == {1, 2}
IdleSession == [pc |-> "idle", call |-> NoCall]

\* books.reduce((acc, b) => acc + b.totalCopies, 0)
RECURSIVE SumTotalCopies(_)
SumTotalCopies(bks) ==
    IF bks = << >> THEN 0
    ELSE SumTotalCopies(SubSeq(bks, 1, Len(bks) - 1)) + ToNumber(bks[Len(bks)].totalCopies).n

\* The stats memo of App, computed when now is the clock.
Stats(bks, studs, txns, now) ==
    [totalBooks |-> SumTotalCopies(bks),
     issuedBooks |-> Cardinality({i \in 1..Len(txns) : txns[i].status = "ISSUED"}),
     totalStudents |-> Len(studs),
     overdue |-> Cardinality({i \in 1..Len(txns) :
                     txns[i].status = "ISSUED" /\ now > ParseISO(txns[i].dueDate)})]

\* refreshData() and the render that follows it: the App state takes the three
\* stored collections, and the memo, whose dependencies changed, is recomputed.
refreshData(db, now) ==
    [books |-> db.books, students |-> db.students, transactions |-> db.transactions,
     stats |-> Stats(db.books, db.students, db.transactions, now)]

Init ==
    /\ books = JSONBooks(dummyBooks)
    /\ students = dummyStudents
    /\ transactions = << >>
    /\ clock = 0
    /\ uuidCount = 0
    /\ lastCall = NoCall
    /\ pending = NoPending
    /\ crashes = 0
    /\ sessions = [s \in Sessions |-> IdleSession]
    /\ app = refreshData(DB, clock)

\* Ids a caller may pass: one seeded record (also after it was deleted) and the
\* records added since; for transactions, which are never removed, also an id
\* that was never handed out.
SeededIds == {"b1", "b2", "b3", "b4", "s1", "s2"}
BookIdInputs == {"b3"} \cup (Ids(books) \ SeededIds)
StudentIdInputs == {"s1"} \cup (Ids(students) \ SeededIds)
TransactionIdInputs == {UnknownId} \cup Ids(transactions)

\* ---------------------------------------------------------------- catalog
\* Each method is a function of the stored collections and its arguments; it
\* yields the collections it leaves in localStorage and the value it returns.
addBook(db, totalCopies, uuid) ==
    LET newBook == [id |-> uuid, totalCopies |-> totalCopies, availableCopies |-> totalCopies]
        saved == JSONBooks(Append(db.books, newBook))
    IN [db |-> [db EXCEPT !.books = saved], result |-> newBook]

addStudent(db, uuid) ==
    LET newStudent == [id |-> uuid]
    IN [db |-> [db EXCEPT !.students = Append(db.students, newStudent)],
        result |-> newStudent]

deleteBook_Cascade(db, id) ==
    [db |-> [db EXCEPT !.books = JSONBooks(FilterOutId(db.books, id)),
                       !.transactions = SelectSeq(db.transactions,
                                                  LAMBDA t : t.bookId # id)],
     result |-> Undefined]
deleteBook(db, id) ==
    [db |-> [db EXCEPT !.books = JSONBooks(FilterOutId(db.books, id))],
     result |-> Undefined]

deleteStudent(db, id) ==
    [db |-> [db EXCEPT !.students = FilterOutId(db.students, id)],
     result |-> Undefined]

\* ------------------------------------------------------------ circulation
\* transactions[txnIndex].status === 'RETURNED'
IsReturned_Never(txn) == FALSE
IsReturned(txn) == txn.status = "RETURNED"

\* The fine charged for a return at returnMs of a loan due at dueMs.
CalculateFine_Floor(returnMs, dueMs) ==
    IF returnMs > dueMs
    THEN ((returnMs - dueMs) \div MS_PER_DAY) * FINE_PER_DAY
    ELSE 0
CalculateFine_NoGuard(returnMs, dueMs) ==
    ((returnMs - dueMs + MS_PER_DAY - 1) \div MS_PER_DAY) * FINE_PER_DAY
CalculateFine(returnMs, dueMs) ==
    IF returnMs > dueMs
    THEN LET diffTime == IF returnMs - dueMs >= 0 THEN returnMs - dueMs ELSE dueMs - returnMs
             diffDays == (diffTime + MS_PER_DAY - 1) \div MS_PER_DAY
         IN diffDays * FINE_PER_DAY
    ELSE 0

\* issueNow is the clock read by new Date() for issueDate, dueNow the one read
\* by Date.now() for dueDate on the next line.
issueBook(db, bookId, studentId, issueNow, dueNow, uuid) ==
    LET bks == db.books
        bookIndex == FindIndex(bks, bookId)
    IN IF bookIndex = 0
       THEN [db |-> db, result |-> [success |-> FALSE, message |-> "Book not found"]]
       ELSE IF LeqZero(bks[bookIndex].availableCopies)
       THEN [db |-> db, result |-> [success |-> FALSE, message |-> "Book not available"]]
       ELSE LET decremented == [bks EXCEPT ![bookIndex].availableCopies = Decrement(@)]
                transaction == [id |-> uuid,
                                bookId |-> bookId,
                                studentId |-> studentId,
                                issueDate |-> ToISOString(issueNow),
                                dueDate |-> ToISOString(dueNow + LOAN_PERIOD_MS),
                                status |-> "ISSUED",
                                fine |-> 0]
            IN [db |-> [db EXCEPT !.books = JSONBooks(decremented),
                                  !.transactions = Append(db.transactions, transaction)],
                result |-> [success |-> TRUE, message |-> "Book issued successfully",
                            transaction |-> transaction]]

returnBook(db, transactionId, now) ==
    LET txns == db.transactions
        txnIndex == FindIndex(txns, transactionId)
    IN IF txnIndex = 0
       THEN [db |-> db, result |-> [success |-> FALSE, message |-> "Transaction not found"]]
       ELSE IF IsReturned(txns[txnIndex])
       THEN [db |-> db, result |-> [success |-> FALSE, message |-> "Already returned"]]
       ELSE LET txn == txns[txnIndex]
                dueDate == ParseISO(txn.dueDate)
                fine == CalculateFine(now, dueDate)
                returned == [id |-> txn.id, bookId |-> txn.bookId,
                             studentId |-> txn.studentId,
                             issueDate |-> txn.issueDate, dueDate |-> txn.dueDate,
                             returnDate |-> ToISOString(now),
                             status |-> "RETURNED", fine |-> fine]
                bks == db.books
                bookIndex == FindIndex(bks, txn.bookId)
                incremented == IF bookIndex # 0
                               THEN [bks EXCEPT ![bookIndex].availableCopies = Increment(@)]
                               ELSE bks
            IN [db |-> [db EXCEPT !.books = JSONBooks(incremented),
                                  !.transactions = [txns EXCEPT ![txnIndex] = returned]],
                result |-> [success |-> TRUE, message |-> "Book returned. Fine: $",
                            fine |-> fine]]

\* ---------------------------------------------------------------- actions
\* A call that runs to completion: both collections it writes are in place
\* when the next call starts.
Commit(op, args, r) ==
    /\ books' = r.db.books
    /\ students' = r.db.students
    /\ transactions' = r.db.transactions
    /\ lastCall' = [op |-> op, args |-> args, result |-> r.result]

\* Time passing between two calls.  It shows only in the fine of a loan that
\* is out, so the clock is advanced while there is one.
Tick(d) ==
    /\ pending = NoPending
    /\ \E i \in 1..Len(transactions) : transactions[i].status = "ISSUED"
    /\ clock + d <= MaxClock
    /\ clock' = clock + d
    /\ UNCHANGED <<books, students, transactions, uuidCount, lastCall, pending, crashes,
                   sessions, app>>

CallAddBook(totalCopies) ==
    /\ pending = NoPending
    /\ uuidCount < MaxUUID
    /\ Commit("addBook", <<totalCopies>>, addBook(DB, totalCopies, randomUUID(uuidCount)))
    /\ uuidCount' = uuidCount + 1
    /\ UNCHANGED <<clock, pending, crashes, sessions, app>>

CallAddStudent ==
    /\ pending = NoPending
    /\ uuidCount < MaxUUID
    /\ Commit("addStudent", << >>, addStudent(DB, randomUUID(uuidCount)))
    /\ uuidCount' = uuidCount + 1
    /\ UNCHANGED <<clock, pending, crashes, sessions, app>>

CallDeleteBook(id) ==
    /\ pending = NoPending
    /\ Commit("deleteBook", <<id>>, deleteBook(DB, id))
    /\ UNCHANGED <<clock, uuidCount, pending, crashes, sessions, app>>

CallDeleteStudent(id) ==
    /\ pending = NoPending
    /\ Commit("deleteStudent", <<id>>, deleteStudent(DB, id))
    /\ UNCHANGED <<clock, uuidCount, pending, crashes, sessions, app>>

CallIssueBook(bookId, studentId, skew) ==
    LET r == issueBook(DB, bookId, studentId, clock, clock + skew, randomUUID(uuidCount))
    IN /\ pending = NoPending
       /\ r.result.success => uuidCount < MaxUUID
       /\ Commit("issueBook", <<bookId, studentId>>, r)
       /\ IF r.result.success
          THEN clock' = clock + skew /\ uuidCount' = uuidCount + 1
          ELSE UNCHANGED <<clock, uuidCount>>
       /\ UNCHANGED <<pending, crashes, sessions, app>>

CallReturnBook(transactionId) ==
    /\ pending = NoPending
    /\ Commit("returnBook", <<transactionId>>, returnBook(DB, transactionId, clock))
    /\ UNCHANGED <<clock, uuidCount, pending, crashes, sessions, app>>

Next ==
    \/ \E d \in Delays : Tick(d)
    \/ \E c \in CopiesInputs : CallAddBook(c)
    \/ CallAddStudent
    \/ \E id \in BookIdInputs : CallDeleteBook(id)
    \/ \E id \in StudentIdInputs : CallDeleteStudent(id)
    \/ \E b \in BookIdInputs, s \in StudentIdInputs, k \in Skews : CallIssueBook(b, s, k)
    \/ \E t \in TransactionIdInputs : CallReturnBook(t)

Spec == Init /\ [][Next]_vars

\* ------------------------------------------------- interrupted calls (crash)
\* issueBook and returnBook each make two localStorage.setItem calls, books
\* first and transactions second.  Here a call stops between the two: the
\* second write waits in pending until the call goes on, or is lost when the
\* page is closed or reloaded at that point.
FirstSave_TransactionsFirst(op, args, r) ==
    IF r.result.success
    THEN /\ transactions' = r.db.transactions
         /\ pending' = [key |-> "lib_books", value |-> r.db.books,
                        call |-> [op |-> op, args |-> args, result |-> r.result]]
         /\ UNCHANGED <<books, students, lastCall>>
    ELSE /\ Commit(op, args, r)
         /\ UNCHANGED pending
FirstSave(op, args, r) ==
    IF r.result.success
    THEN /\ books' = r.db.books
         /\ pending' = [key |-> "lib_transactions", value |-> r.db.transactions,
                        call |-> [op |-> op, args |-> args, result |-> r.result]]
         /\ UNCHANGED <<students, transactions, lastCall>>
    ELSE /\ Commit(op, args, r)
         /\ UNCHANGED pending

BeginIssueBook(bookId, studentId, skew) ==
    LET r == issueBook(DB, bookId, studentId, clock, clock + skew, randomUUID(uuidCount))
    IN /\ pending = NoPending
       /\ r.result.success => uuidCount < MaxUUID
       /\ FirstSave("issueBook", <<bookId, studentId>>, r)
       /\ IF r.result.success
          THEN clock' = clock + skew /\ uuidCount' = uuidCount + 1
          ELSE UNCHANGED <<clock, uuidCount>>
       /\ UNCHANGED <<crashes, sessions, app>>

BeginReturnBook(transactionId) ==
    /\ pending = NoPending
    /\ FirstSave("returnBook", <<transactionId>>, returnBook(DB, transactionId, clock))
    /\ UNCHANGED <<clock, uuidCount, crashes, sessions, app>>

SecondSave ==
    /\ pending # NoPending
    /\ transactions' = pending.value
    /\ lastCall' = pending.call
    /\ pending' = NoPending
    /\ UNCHANGED <<books, students, clock, uuidCount, crashes, sessions, app>>

Crash ==
    /\ pending # NoPending
    /\ crashes < MaxCrashes
    /\ pending' = NoPending
    /\ lastCall' = NoCall
    /\ crashes' = crashes + 1
    /\ UNCHANGED <<books, students, transactions, clock, uuidCount, sessions, app>>

NextCrash ==
    \/ \E d \in Delays : Tick(d)
    \/ \E id \in BookIdInputs : CallDeleteBook(id)
    \/ \E b \in BookIdInputs, s \in StudentIdInputs, k \in Skews : BeginIssueBook(b, s, k)
    \/ \E t \in TransactionIdInputs : BeginReturnBook(t)
    \/ SecondSave
    \/ Crash

SpecCrash == Init /\ [][NextCrash]_vars

\* ------------------------------------------------- two tabs, interleaved calls
\* Each tab runs issueBook and returnBook one localStorage access at a time:
\* issueBook reads books, reads transactions, writes books, writes
\* transactions; returnBook reads transactions, reads books, writes books,
\* writes transactions.  Nothing keeps the accesses of the two tabs apart.
SessionDone(s, op, args, result) ==
    sessions' = [sessions EXCEPT ![s] =
                    [pc |-> "idle", call |-> [op |-> op, args |-> args, result |-> result]]]

IssueLoadBooks(s, bookId, studentId) ==
    LET r == issueBook(DB, bookId, studentId, clock, clock, randomUUID(uuidCount))
    IN /\ sessions[s].pc = "idle"
       /\ IF r.result.success
          THEN /\ uuidCount + Cardinality({o \in Sessions :
                                  sessions[o].pc = "issue_books_loaded"}) < MaxUUID
               /\ sessions' = [sessions EXCEPT ![s] =
                      [pc |-> "issue_books_loaded", call |-> sessions[s].call,
                       args |-> <<bookId, studentId>>, bks |-> books]]
          ELSE SessionDone(s, "issueBook", <<bookId, studentId>>, r.result)
       /\ UNCHANGED <<books, students, transactions, clock, uuidCount, lastCall,
                      pending, crashes, app>>

IssueLoadTransactions(s) ==
    /\ sessions[s].pc = "issue_books_loaded"
    /\ LET loaded == [books |-> sessions[s].bks, students |-> students,
                      transactions |-> transactions]
           r == issueBook(loaded, sessions[s].args[1], sessions[s].args[2],
                          clock, clock, randomUUID(uuidCount))
       IN sessions' = [sessions EXCEPT ![s] =
              [pc |-> "save_books", call |-> sessions[s].call, op |-> "issueBook",
               args |-> sessions[s].args, r |-> r]]
    /\ uuidCount' = uuidCount + 1
    /\ UNCHANGED <<books, students, transactions, clock, lastCall, pending, crashes, app>>

ReturnLoadTransactions(s, transactionId) ==
    LET r == returnBook(DB, transactionId, clock)
    IN /\ sessions[s].pc = "idle"
       /\ IF r.result.success
          THEN sessions' = [sessions EXCEPT ![s] =
                   [pc |-> "return_transactions_loaded", call |-> sessions[s].call,
                    args |-> <<transactionId>>, txns |-> transactions]]
          ELSE SessionDone(s, "returnBook", <<transactionId>>, r.result)
       /\ UNCHANGED <<books, students, transactions, clock, uuidCount, lastCall,
                      pending, crashes, app>>

ReturnLoadBooks(s) ==
    /\ sessions[s].pc = "return_transactions_loaded"
    /\ LET loaded == [books |-> books, students |-> students,
                      transactions |-> sessions[s].txns]
           r == returnBook(loaded, sessions[s].args[1], clock)
       IN sessions' = [sessions EXCEPT ![s] =
              [pc |-> "save_books", call |-> sessions[s].call, op |-> "returnBook",
               args |-> sessions[s].args, r |-> r]]
    /\ UNCHANGED <<books, students, transactions, clock, uuidCount, lastCall,
                   pending, crashes, app>>

SessionSaveBooks(s) ==
    /\ sessions[s].pc = "save_books"
    /\ books' = sessions[s].r.db.books
    /\ sessions' = [sessions EXCEPT ![s].pc = "save_transactions"]
    /\ UNCHANGED <<students, transactions, clock, uuidCount, lastCall, pending,
                   crashes, app>>

SessionSaveTransactions(s) ==
    /\ sessions[s].pc = "save_transactions"
    /\ transactions' = sessions[s].r.db.transactions
    /\ SessionDone(s, sessions[s].op, sessions[s].args, sessions[s].r.result)
    /\ UNCHANGED <<books, students, clock, uuidCount, lastCall, pending, crashes, app>>

NextConc ==
    \/ \E s \in Sessions, b \in BookIdInputs, st \in StudentIdInputs : IssueLoadBooks(s, b, st)
    \/ \E s \in Sessions : IssueLoadTransactions(s)
    \/ \E s \in Sessions, t \in TransactionIdInputs : ReturnLoadTransactions(s, t)
    \/ \E s \in Sessions : ReturnLoadBooks(s)
    \/ \E s \in Sessions : SessionSaveBooks(s)
    \/ \E s \in Sessions : SessionSaveTransactions(s)

SpecConc == Init /\ [][NextConc]_vars

\* --------------------------------------------------------- the App component
\* The handlers of App: the LibraryService call, then refreshData() where the
\* handler calls it.  stats is a memo over [books, students, transactions], so
\* it is recomputed by the render after a refreshData() and by nothing else.
Refresh(r) == app' = refreshData(r.db, clock')

handleAddBook(totalCopies) ==
    LET r == addBook(DB, totalCopies, randomUUID(uuidCount))
    IN /\ uuidCount < MaxUUID
       /\ Commit("addBook", <<totalCopies>>, r)
       /\ uuidCount' = uuidCount + 1
       /\ UNCHANGED <<clock, pending, crashes, sessions>>
       /\ Refresh(r)

handleDeleteBook(id) ==
    LET r == deleteBook(DB, id)
    IN /\ Commit("deleteBook", <<id>>, r)
       /\ UNCHANGED <<clock, uuidCount, pending, crashes, sessions>>
       /\ Refresh(r)

handleAddStudent ==
    LET r == addStudent(DB, randomUUID(uuidCount))
    IN /\ uuidCount < MaxUUID
       /\ Commit("addStudent", << >>, r)
       /\ uuidCount' = uuidCount + 1
       /\ UNCHANGED <<clock, pending, crashes, sessions>>
       /\ Refresh(r)

handleDeleteStudent(id) ==
    LET r == deleteStudent(DB, id)
    IN /\ Commit("deleteStudent", <<id>>, r)
       /\ UNCHANGED <<clock, uuidCount, pending, crashes, sessions>>
       /\ Refresh(r)

handleIssueBook(bookId, studentId, skew) ==
    LET r == issueBook(DB, bookId, studentId, clock, clock + skew, randomUUID(uuidCount))
    IN /\ r.result.success => uuidCount < MaxUUID
       /\ Commit("issueBook", <<bookId, studentId>>, r)
       /\ IF r.result.success
          THEN clock' = clock + skew /\ uuidCount' = uuidCount + 1 /\ Refresh(r)
          ELSE UNCHANGED <<clock, uuidCount, app>>
       /\ UNCHANGED <<pending, crashes, sessions>>

handleReturnBook(txnId) ==
    LET r == returnBook(DB, txnId, clock)
    IN /\ Commit("returnBook", <<txnId>>, r)
       /\ UNCHANGED <<clock, uuidCount, pending, crashes, sessions>>
       /\ IF r.result.success THEN Refresh(r) ELSE UNCHANGED app

NextApp ==
    \/ \E d \in Delays : Tick(d)
    \/ \E c \in CopiesInputs : handleAddBook(c)
    \/ handleAddStudent
    \/ \E id \in BookIdInputs : handleDeleteBook(id)
    \/ \E id \in StudentIdInputs : handleDeleteStudent(id)
    \/ \E b \in BookIdInputs, st \in StudentIdInputs, k \in Skews : handleIssueBook(b, st, k)
    \/ \E t \in TransactionIdInputs : handleReturnBook(t)

SpecApp == Init /\ [][NextApp]_vars

\* ===================================================================== claims
\* Number of ISSUED loans on a book.
IssuedOn(txns, bookId) ==
    Cardinality({i \in 1..Len(txns) : txns[i].bookId = bookId /\ txns[i].status = "ISSUED"})

Failure(msg) == [success |-> FALSE, message |-> msg]

\* ------------------------------------------------------------------------ C1
\* C1 (as claimed): in every reachable state every Book in the store satisfies
\* availableCopies + (number of ISSUED loans on it) = totalCopies.
C1_Conservation ==
    \A i \in 1..Len(books) :
        /\ IsNum(books[i].availableCopies)
        /\ IsNum(books[i].totalCopies)
        /\ books[i].availableCopies.n + IssuedOn(transactions, books[i].id)
               = books[i].totalCopies.n

\* ------------------------------------------------------------------------ C2
\* C2 (as claimed): in every reachable state every Book in the store, seeded or
\* created by addBook with any totalCopies, has 0 <= availableCopies <= totalCopies.
C2_Bounds ==
    \A i \in 1..Len(books) :
        /\ IsNum(books[i].availableCopies)
        /\ IsNum(books[i].totalCopies)
        /\ 0 <= books[i].availableCopies.n
        /\ books[i].availableCopies.n <= books[i].totalCopies.n

\* ------------------------------------------------------------------------ C3
\* C3: issueBook on a book of the store whose availableCopies is <= 0 returns
\* the failure 'Book not available' and leaves books, students and transactions
\* as they were; and a book with totalCopies = 1 that has an ISSUED loan cannot
\* be issued again.
C3_UnavailableRejected ==
    \A i \in 1..Len(books), s \in StudentIdInputs, k \in Skews :
        LET b == books[i]
            r == issueBook(DB, b.id, s, clock, clock + k, randomUUID(uuidCount))
        IN /\ (IsNum(b.availableCopies) /\ b.availableCopies.n <= 0)
                => (r.result = Failure("Book not available") /\ r.db = DB)
           /\ (b.totalCopies = Num(1) /\ IssuedOn(transactions, b.id) >= 1)
                => (r.result = Failure("Book not available") /\ r.db = DB)

\* A second issue of a one-copy book was just refused while its only copy is out.
C3_Witness ==
    /\ lastCall.op = "issueBook"
    /\ lastCall.result = Failure("Book not available")
    /\ \E i \in 1..Len(books) :
          /\ books[i].totalCopies = Num(1)
          /\ books[i].availableCopies = Num(0)
          /\ IssuedOn(transactions, books[i].id) = 1

\* ------------------------------------------------------------------------ C4
\* C4: a loan is created ISSUED; no step removes a loan, changes the id of one,
\* or changes a RETURNED loan in any field (so RETURNED never goes back to
\* ISSUED and its returnDate and fine stay); and returnBook on a RETURNED loan
\* returns the failure 'Already returned' and leaves all collections as they were.
C4_SecondReturnRejected ==
    \A i \in 1..Len(transactions) :
        transactions[i].status = "RETURNED" =>
            LET r == returnBook(DB, transactions[i].id, clock)
            IN r.result = Failure("Already returned") /\ r.db = DB

C4_Step ==
    /\ Len(transactions') >= Len(transactions)
    /\ \A i \in 1..Len(transactions) :
          /\ transactions'[i].id = transactions[i].id
          /\ transactions[i].status = "RETURNED" => transactions'[i] = transactions[i]
    /\ \A i \in (Len(transactions) + 1)..Len(transactions') :
          transactions'[i].status = "ISSUED"

C4_MonotonicTerminality == [] C4_SecondReturnRejected /\ [][C4_Step]_vars

\* A second return of a loan was just refused and the loan is still RETURNED.
C4_Witness ==
    /\ lastCall.op = "returnBook"
    /\ lastCall.result = Failure("Already returned")
    /\ \E i \in 1..Len(transactions) :
          transactions[i].status = "RETURNED" /\ "returnDate" \in DOMAIN transactions[i]

\* ------------------------------------------------------------------------ C5
\* C5: returning an ISSUED loan at time R with due date D stores fine 0 when
\* R <= D and otherwise the least whole number of days covering R - D, times
\* FINE_PER_DAY = 1: 1 for one second late, 2 for 25 hours, 3 for 2 days 3 hours.
ExpectedFine(late, fine) ==
    /\ fine \in Nat
    /\ late <= 0 => fine = 0
    /\ late > 0 => /\ (fine - 1) * MS_PER_DAY < late
                   /\ late <= fine * MS_PER_DAY
    /\ late = OneSecond => fine = 1
    /\ late = Hours25 => fine = 2
    /\ late = Days2Hours3 => fine = 3

C5_FineComputation ==
    \A i \in 1..Len(transactions) :
        transactions[i].status = "ISSUED" =>
            LET r == returnBook(DB, transactions[i].id, clock)
                late == clock - ParseISO(transactions[i].dueDate)
            IN /\ r.result.success
               /\ ExpectedFine(late, r.db.transactions[i].fine)
               /\ r.result.fine = r.db.transactions[i].fine

\* A loan was just returned 2 days 3 hours after its due date with fine 3.
C5_Witness ==
    /\ lastCall.op = "returnBook"
    /\ lastCall.result.success
    /\ lastCall.result.fine = 3
    /\ \E i \in 1..Len(transactions) :
          /\ transactions[i].status = "RETURNED"
          /\ transactions[i].fine = 3
          /\ ParseISO(transactions[i].returnDate) - ParseISO(transactions[i].dueDate)
                 = Days2Hours3

\* ------------------------------------------------------------------------ C6
\* C6 (as claimed): a successful issueBook decrements the availableCopies of
\* the given book by exactly 1, leaves every other book unchanged, appends
\* exactly one Loan with a fresh id, the given bookId and memberId, status
\* ISSUED, fine 0, issueDate = now and dueDate = issueDate + 7 days, and
\* returns that Loan.
C6_Step ==
    Len(transactions') > Len(transactions) =>
        LET n == Len(transactions')
            t == transactions'[n]
            j == FindIndex(books, t.bookId)
        IN /\ n = Len(transactions) + 1
           /\ SubSeq(transactions', 1, n - 1) = transactions
           /\ t.id \notin Ids(transactions) \cup Ids(books) \cup Ids(students)
           /\ lastCall'.op = "issueBook"
           /\ lastCall'.args = <<t.bookId, t.studentId>>
           /\ lastCall'.result.success
           /\ lastCall'.result.transaction = t
           /\ j # 0
           /\ IsNum(books[j].availableCopies)
           /\ books' = [books EXCEPT ![j].availableCopies = Num(@.n - 1)]
           /\ students' = students
           /\ t.status = "ISSUED"
           /\ t.fine = 0
           /\ "returnDate" \notin DOMAIN t
           /\ ParseISO(t.issueDate) = clock
           /\ ParseISO(t.dueDate) = ParseISO(t.issueDate) + LOAN_PERIOD_MS

C6_IssueEffect == [][C6_Step]_vars

\* ------------------------------------------------------------------------ C7
\* C7: returnBook on an ISSUED loan succeeds, sets that loan's status to
\* RETURNED and its returnDate to now, keeps its other fields apart from fine,
\* changes no other loan, adds exactly 1 to the availableCopies of the loan's
\* book when that book is in the store and changes no other book; and an
\* issueBook followed at once by returnBook of the created loan leaves the
\* book's availableCopies at its value before the issue.
C7_ReturnOfIssued ==
    \A i \in 1..Len(transactions) :
        transactions[i].status = "ISSUED" =>
            LET t == transactions[i]
                r == returnBook(DB, t.id, clock)
                t2 == r.db.transactions[i]
            IN /\ r.result.success
               /\ Len(r.db.transactions) = Len(transactions)
               /\ t2.status = "RETURNED"
               /\ ParseISO(t2.returnDate) = clock
               /\ t2.id = t.id /\ t2.bookId = t.bookId /\ t2.studentId = t.studentId
               /\ t2.issueDate = t.issueDate /\ t2.dueDate = t.dueDate
               /\ \A j \in 1..Len(transactions) : j # i => r.db.transactions[j] = transactions[j]
               /\ Len(r.db.books) = Len(books)
               /\ \A j \in 1..Len(books) :
                     r.db.books[j] =
                         IF books[j].id = t.bookId
                         THEN [books[j] EXCEPT !.availableCopies = Num(@.n + 1)]
                         ELSE books[j]
               /\ r.db.students = students

C7_IssueThenReturn ==
    \A j \in 1..Len(books), s \in StudentIdInputs, k \in Skews :
        (/\ books[j].id \in BookIdInputs
         /\ IsNum(books[j].availableCopies)
         /\ books[j].availableCopies.n > 0) =>
            LET r1 == issueBook(DB, books[j].id, s, clock, clock + k, randomUUID(uuidCount))
                r2 == returnBook(r1.db, r1.result.transaction.id, clock + k)
            IN /\ r1.result.success
               /\ r1.db.books[j].availableCopies # books[j].availableCopies
               /\ r2.result.success
               /\ r2.db.books[j].availableCopies = books[j].availableCopies

C7_ReturnEffect == C7_ReturnOfIssued /\ C7_IssueThenReturn

\* The loan just issued was returned by the very next call, and its book, still
\* in the store, has all its copies back.
C7_Witness ==
    /\ lastCall.op = "returnBook"
    /\ lastCall.result.success
    /\ \E i \in 1..Len(transactions), j \in 1..Len(books) :
          /\ transactions[i].id = lastCall.args[1]
          /\ transactions[i].status = "RETURNED"
          /\ ParseISO(transactions[i].returnDate) = clock
          /\ books[j].id = transactions[i].bookId
          /\ IssuedOn(transactions, books[j].id) = 0
          /\ books[j].availableCopies = books[j].totalCopies

\* ------------------------------------------------------------------------ C8
\* C8 (as claimed): issueBook with a memberId that is not the id of a Member in
\* the store creates no Loan: every Loan a step appends has a studentId that
\* was the id of a student in the store when the step began.
C8_Step ==
    \A i \in (Len(transactions) + 1)..Len(transactions') :
        transactions'[i].studentId \in Ids(students)

C8_MemberValidated == [][C8_Step]_vars

\* ------------------------------------------------------------------------ C9
\* C9: issueBook with a bookId that no book of the store has returns the value
\* {success: false, message: 'Book not found'}, and returnBook with an id that
\* no transaction has returns {success: false, message: 'Transaction not
\* found'}; each leaves books, students and transactions as they were.
C9_NotFound ==
    /\ \A b \in BookIdInputs \cup {UnknownId}, s \in StudentIdInputs, k \in Skews :
          b \notin Ids(books) =>
              LET r == issueBook(DB, b, s, clock, clock + k, randomUUID(uuidCount))
              IN r.result = Failure("Book not found") /\ r.db = DB
    /\ \A t \in TransactionIdInputs \cup Ids(books) :
          t \notin Ids(transactions) =>
              LET r == returnBook(DB, t, clock)
              IN r.result = Failure("Transaction not found") /\ r.db = DB

\* An issue of a book that is not in the store was just refused.
C9_Witness ==
    /\ lastCall.op = "issueBook"
    /\ lastCall.result = Failure("Book not found")
    /\ lastCall.args[1] \notin Ids(books)
    /\ Len(books) > 0

\* ----------------------------------------------------------------------- C10
\* C10 (as claimed): also when issueBook or returnBook is interrupted after its
\* first save and before its second, what is stored never over-states
\* availability: every Book has availableCopies <= totalCopies - (number of
\* ISSUED loans on it).
C10_NeverOverstated ==
    \A i \in 1..Len(books) :
        /\ IsNum(books[i].availableCopies)
        /\ IsNum(books[i].totalCopies)
        /\ books[i].availableCopies.n
               <= books[i].totalCopies.n - IssuedOn(transactions, books[i].id)

\* ----------------------------------------------------------------------- C11
\* C11 (as claimed): when two tabs run issueBook and returnBook with their
\* loads and saves interleaved, then in every state where no call is in
\* progress every Book satisfies conservation and the Loan returned by the
\* last successful issueBook of each tab is in the Loan collection.
AllIdle == \A s \in Sessions : sessions[s].pc = "idle"

C11_Serialized ==
    AllIdle =>
        /\ \A i \in 1..Len(books) :
              books[i].availableCopies.n + IssuedOn(transactions, books[i].id)
                  = books[i].totalCopies.n
        /\ \A s \in Sessions :
              (sessions[s].call.op = "issueBook" /\ sessions[s].call.result.success)
                  => sessions[s].call.result.transaction.id \in Ids(transactions)

\* ----------------------------------------------------------------------- C12
\* C12 (as claimed): from any stored state, also one left behind by an
\* interrupted call, a returnBook whose increment would put the Book's
\* availableCopies above its totalCopies fails, keeps the Loan ISSUED, and
\* leaves the three collections as they were.
IsFailure(res) == "success" \in DOMAIN res /\ ~res.success

WouldOverflow(bks, bookId) ==
    LET i == FindIndex(bks, bookId)
    IN /\ i # 0
       /\ IsNum(bks[i].availableCopies)
       /\ IsNum(bks[i].totalCopies)
       /\ bks[i].availableCopies.n + 1 > bks[i].totalCopies.n

C12_OverflowRejected ==
    pending = NoPending =>
        \A t \in TransactionIdInputs :
            LET k == FindIndex(transactions, t)
                r == returnBook(DB, t, clock)
            IN (/\ k # 0
                /\ transactions[k].status = "ISSUED"
                /\ WouldOverflow(books, transactions[k].bookId))
               => IsFailure(r.result) /\ r.db = DB

\* ----------------------------------------------------------------------- C13
\* C13 (as claimed): an addBook call whose totalCopies is not a positive
\* integer fails and leaves the Book collection unchanged; with a positive
\* integer it appends exactly one Book, with an id no stored Book has and
\* availableCopies = totalCopies.
IsPositiveInteger(x) == IsNum(x) /\ x.n > 0

C13_Step ==
    (lastCall'.op = "addBook" /\ uuidCount' = uuidCount + 1) =>
        LET totalCopies == lastCall'.args[1]
        IN IF IsPositiveInteger(totalCopies)
           THEN /\ Len(books') = Len(books) + 1
                /\ SubSeq(books', 1, Len(books)) = books
                /\ books'[Len(books')].id \notin Ids(books)
                /\ books'[Len(books')].totalCopies = totalCopies
                /\ books'[Len(books')].availableCopies = totalCopies
           ELSE /\ IsFailure(lastCall'.result)
                /\ books' = books

C13_AddBookValidated == [][C13_Step]_vars

\* ----------------------------------------------------------------------- C14
\* C14 (as claimed): deleteBook and deleteStudent called with an id that is
\* not in the collection report a failure to the caller and leave the
\* collection unchanged; called with an id that is in it they remove the
\* record with that id and no other.
C14_DeleteReportsNotFound ==
    /\ \A id \in BookIdInputs :
          LET r == deleteBook(DB, id)
          IN IF id \in Ids(books)
             THEN /\ Ids(r.db.books) = Ids(books) \ {id}
                  /\ Len(r.db.books) = Len(books) - 1
             ELSE IsFailure(r.result) /\ r.db = DB
    /\ \A id \in StudentIdInputs :
          LET r == deleteStudent(DB, id)
          IN IF id \in Ids(students)
             THEN /\ Ids(r.db.students) = Ids(students) \ {id}
                  /\ Len(r.db.students) = Len(students) - 1
             ELSE IsFailure(r.result) /\ r.db = DB

\* ----------------------------------------------------------------------- C15
\* C15 (amended): within one issueBook the Book collection is saved before
\* the Loan collection, and within one returnBook the Book collection is
\* saved before the Loan collection: the first save of either call leaves the
\* Loan collection as it was and the Loan collection is what remains to be
\* saved, and the second save writes the Loan collection and leaves the Book
\* collection as the first save stored it.
IsFirstSave == pending = NoPending /\ pending' # NoPending
IsSecondSave == pending # NoPending /\ pending' = NoPending /\ crashes' = crashes

C15_Step ==
    /\ IsFirstSave =>
          /\ pending'.key = "lib_transactions"
          /\ transactions' = transactions
          /\ pending'.call.op = "issueBook" => books' # books
          /\ pending'.value # transactions
    /\ IsSecondSave =>
          /\ books' = books
          /\ transactions' = pending.value

C15_BooksSavedFirst == [][C15_Step]_vars

\* A state between the two saves of an issueBook: the decremented Book is
\* stored, the new Loan is not yet.
C15_Witness ==
    /\ pending # NoPending
    /\ pending.key = "lib_transactions"
    /\ pending.call.op = "issueBook"
    /\ Len(pending.value) = Len(transactions) + 1
    /\ \E i \in 1..Len(books) :
          /\ books[i].id = pending.call.args[1]
          /\ IsNum(books[i].availableCopies)
          /\ books[i].availableCopies.n + IssuedOn(transactions, books[i].id)
                 < books[i].totalCopies.n

\* C15 (as claimed): within one issueBook the Loan collection is saved before
\* the Book collection, and within one returnBook the Book collection is
\* saved before the Loan collection.
C15_OriginalStep ==
    IsFirstSave =>
        IF pending'.call.op = "issueBook"
        THEN transactions' # transactions /\ books' = books
        ELSE transactions' = transactions

C15_LoanSavedFirstOnIssue == [][C15_OriginalStep]_vars

\* ----------------------------------------------------------------------- C16
\* C16: no step removes a Loan or changes the id, bookId, studentId,
\* issueDate or dueDate of a stored Loan, and a step that removes a Book or a
\* Student leaves the Loan collection unchanged, also when ISSUED loans refer
\* to the removed record.
C16_Step ==
    /\ Len(transactions') >= Len(transactions)
    /\ \A i \in 1..Len(transactions) :
          /\ transactions'[i].id = transactions[i].id
          /\ transactions'[i].bookId = transactions[i].bookId
          /\ transactions'[i].studentId = transactions[i].studentId
          /\ transactions'[i].issueDate = transactions[i].issueDate
          /\ transactions'[i].dueDate = transactions[i].dueDate
    /\ (Len(books') < Len(books) \/ Len(students') < Len(students))
          => transactions' = transactions

C17_LoanFields ==
    \A i \in 1..Len(transactions) :
        LET t == transactions[i]
        IN /\ t.fine >= 0
           /\ t.status \in {"ISSUED", "RETURNED"}
           /\ t.status = "ISSUED" => t.fine = 0 /\ "returnDate" \notin DOMAIN t
           /\ t.status = "RETURNED" => "returnDate" \in DOMAIN t

\* issueBook has just stored an ISSUED loan next to a loan that was returned
\* late, with a fine.
C17_Witness ==
    /\ \E i \in 1..Len(transactions) : transactions[i].status = "ISSUED"
    /\ \E i \in 1..Len(transactions) :
          /\ transactions[i].status = "RETURNED"
          /\ transactions[i].fine > 0
    /\ lastCall.op = "issueBook"
    /\ lastCall.result.success

\* ----------------------------------------------------------------------- C18
\* C18 (as claimed): in every state between two handlers the statistics App
\* shows are the ones derived from the stored collections at the current
\* time: issuedBooks is the number of ISSUED loans, overdue the number of
\* ISSUED loans whose dueDate is before now, totalBooks the sum of
\* totalCopies, totalStudents the number of Students.
C18_FaithfulProjection ==
    /\ app.stats.issuedBooks
           = Cardinality({i \in 1..Len(transactions) : transactions[i].status = "ISSUED"})
    /\ app.stats.overdue
           = Cardinality({i \in 1..Len(transactions) :
                    /\ transactions[i].status = "ISSUED"
                    /\ ParseISO(transactions[i].dueDate) < clock})
    /\ app.stats.totalBooks = SumTotalCopies(books)
    /\ app.stats.totalStudents = Len(students)

\* ----------------------------------------------------------------------- C19
\* C19: when the Book of an ISSUED Loan is no longer stored, returnBook of
\* that Loan succeeds, stores the Loan as RETURNED with the fine for its
\* lateness, and leaves the Book collection exactly as it was.
C19_ReturnAfterDelete ==
    \A t \in TransactionIdInputs :
        LET k == FindIndex(transactions, t)
            r == returnBook(DB, t, clock)
        IN (/\ k # 0
            /\ transactions[k].status = "ISSUED"
            /\ transactions[k].bookId \notin Ids(books))
           => /\ r.result.success
              /\ r.db.books = books
              /\ r.db.students = students
              /\ Len(r.db.transactions) = Len(transactions)
              /\ r.db.transactions[k].status = "RETURNED"
              /\ r.db.transactions[k].fine = r.result.fine
              /\ ExpectedFine(clock - ParseISO(transactions[k].dueDate), r.result.fine)
              /\ \A j \in 1..Len(transactions) :
                    j # k => r.db.transactions[j] = transactions[j]

\* returnBook has just succeeded on a Loan whose Book had been deleted.
C19_Witness ==
    /\ lastCall.op = "returnBook"
    /\ lastCall.result.success
    /\ \E i \in 1..Len(transactions) :
          /\ transactions[i].id = lastCall.args[1]
          /\ transactions[i].status = "RETURNED"
          /\ transactions[i].bookId \notin Ids(books)
          /\ transactions[i].fine = lastCall.result.fine

TypeOK ==
    /\ uuidCount \in 0..MaxUUID
    /\ clock \in 0..MaxClock
====
